---- MODULE Spec2Model ----
(***************************************************************************)
(* Shop migration PostgreSQL -> Neo4j: the etl() pass of app/etl.py, the   *)
(* POST /neo4j/migrate handler and the POST /etl/run trigger of            *)
(* app/main.py, over one relational source and one graph store.            *)
(*                                                                         *)
(* Every session.run / run_cypher call is one auto-commit statement and is *)
(* one step of the model; every pd.read_sql / cursor.execute+fetchall is   *)
(* one step.  Any store call may raise.                                    *)
(***************************************************************************)
EXTENDS Naturals, Sequences, FiniteSets

\* ---------------------------------------------------------------- bounds
\* rows per entity table (categories, products, customers, orders)
MaxRows == 1
\* rows of order_items
MaxItems == 2
\* rows of events
MaxEvents == 1
\* foreign keys range over 1..MaxId; a key above the referenced table's row
\* count (or into an empty table) dangles
MaxId == 1
\* segments of the schema script
MaxSegs == 3
\* Largest max_retries a readiness gate is called with.
MaxAttempts == 3
\* Largest delay a readiness gate is called with.
MaxDelay == 2
\* Largest number of transactions another writer commits during a run.
MaxWrites == 2

\* The runs, named in the order they are triggered: r1 is the run triggered
\* first, r2 the run triggered second, possibly while r1 is still in flight.
Runs == {"r1", "r2"}

Ord(r) == IF r = "r1" THEN 1 ELSE 2

\* The entry points: etl() (called by the background task of POST /etl/run or
\* directly, python etl.py) and the handler of POST /neo4j/migrate.
Kinds == {"etl", "migrate"}

VARIABLES
    src,      \* the relational source: one row sequence (read order) per table
    script,   \* queries.cypher next to etl.py: whether it exists, and its text
    graph,    \* the graph store: [nodes, rels]
    run,      \* per run slot: the position and locals of that run
    started,  \* number of runs triggered so far
    gate      \* one call of a readiness gate (wait_for_postgres, wait_for_neo4j)

vars == <<src, script, graph, run, started, gate>>

\* ------------------------------------------------------- relational source
Stages == {"categories", "products", "customers", "orders", "order_items", "events"}

\* categories(id, name), customers(id, name, join_date): the primary key is the
\* row's position in the table
KeyRows(n) == [k \in 1..n |-> [id |-> k]]

\* products(id, name, price, category_id)
ProductRows(n) ==
    {[k \in 1..n |-> [id |-> k, category_id |-> f[k]]] : f \in [1..n -> 1..MaxId]}

\* orders(id, customer_id, ts)
OrderRows(n) ==
    {[k \in 1..n |-> [id |-> k, customer_id |-> f[k], ts |-> k]] :
        f \in [1..n -> 1..MaxId]}

\* order_items(order_id, product_id, quantity)
ItemRows(n) ==
    {[k \in 1..n |-> [order_id |-> f[k][1], product_id |-> f[k][2], quantity |-> k]] :
        f \in [1..n -> (1..MaxId) \X (1..MaxId)]}

\* events(id, customer_id, product_id, event_type, ts)
EventRows(n) ==
    {[k \in 1..n |-> [customer_id |-> f[k][1], product_id |-> f[k][2], ts |-> k]] :
        f \in [1..n -> (1..MaxId) \X (1..MaxId)]}

Sources ==
    {[categories  |-> KeyRows(nc),
      products    |-> p,
      customers   |-> KeyRows(nu),
      orders      |-> o,
      order_items |-> it,
      events      |-> ev] :
        nc \in 0..MaxRows, nu \in 0..MaxRows,
        p  \in UNION {ProductRows(n) : n \in 0..MaxRows},
        o  \in UNION {OrderRows(n) : n \in 0..MaxRows},
        it \in UNION {ItemRows(n) : n \in 0..MaxItems},
        ev \in UNION {EventRows(n) : n \in 0..MaxEvents}}

\* ------------------------------------------------------------ schema script
\* The text of queries.cypher as content.split(';') cuts it: a sequence of
\* segments, each a statement text with or without white space around it;
\* the text "" is a segment of white space only (or of nothing).
Seg(text, pad) == [text |-> text, pad |-> pad]

\* stmt.strip()
Strip(seg) == seg.text

\* Variant of Statements: the empty segments are not filtered out.
StatementsKeepEmpty(segs) == [k \in DOMAIN segs |-> Strip(segs[k])]

\* [stmt.strip() for stmt in content.split(';') if stmt.strip()]
Statements(segs) ==
    LET kept == SelectSeq(segs, LAMBDA sg : Strip(sg) # "")
    IN  [k \in DOMAIN kept |-> Strip(kept[k])]

NoScript == [exists |-> FALSE, segs |-> <<>>]

\* "A;\n": one statement and the white space after its semicolon
OneStatementScript == [exists |-> TRUE, segs |-> <<Seg("A", FALSE), Seg("", TRUE)>>]

\* The scripts of up to MaxSegs segments: white space, " A ", "B".
Scripts ==
    {NoScript} \cup
    {[exists |-> TRUE, segs |-> sg] :
        sg \in UNION {[1..n -> {Seg("", TRUE), Seg("A", TRUE), Seg("B", FALSE)}] :
                         n \in 0..MaxSegs}}

\* The statements run_cypher_file executes for the script sc (none when the
\* file does not exist).
ScriptStatements(sc) == IF sc.exists THEN Statements(sc.segs) ELSE <<>>

\* ------------------------------------------------------------ graph store
EmptyGraph == [nodes |-> {}, rels |-> {}]

\* A node: its label, its id property, the run whose statement created it and,
\* for a node created under a MATCH, the creator of the matched node (one
\* node is created per matched row, so this tells the copies apart).
Node(label, id, by, anchor) ==
    [label |-> label, id |-> id, by |-> by, anchor |-> anchor, timestamp |-> 0]

Sentinel == Node("Sentinel", 0, "pre", "-")

\* A relationship joins two nodes of the store; row is the index of the source
\* row whose statement created it.
Rel(type, from, to, by, row, prop) ==
    [type |-> type, from |-> from, to |-> to, by |-> by, row |-> row, prop |-> prop]

\* MATCH (n:label {id: $id})
Matching(g, label, id) == {n \in g.nodes : n.label = label /\ n.id = id}

\* A timestamp as text: the moment it names and the character between its date
\* and its time.
\* row['ts'].isoformat(): YYYY-MM-DDTHH:MM:SS
Isoformat(ts) == [moment |-> ts, sep |-> "T"]

\* str(order['ts']): YYYY-MM-DD HH:MM:SS
Str(ts) == [moment |-> ts, sep |-> " "]

\* The ts parameter an entry point passes for a row's ts column.
TsText(kind, ts) == IF kind = "migrate" THEN Str(ts) ELSE Isoformat(ts)

\* The parameters an entry point passes with the statement of a row.
Params(kind, stage, row) ==
    IF stage \in {"orders", "events"}
    THEN [row EXCEPT !.ts = TsText(kind, row.ts)]
    ELSE row

\* Cypher datetime($ts) takes ISO 8601 text, date and time joined by T.
Parses(text) == text.sep = "T"

DateTime(text) == text.moment

\* CREATE (o:Order {id: $id, timestamp: datetime($ts)}), under the matched
\* Customer c
Order(row, r, c) ==
    [Node("Order", row.id, r, c.by) EXCEPT !.timestamp = DateTime(row.ts)]

\* Variant of Wipe: the delete statement is missing and the store is kept.
WipeKeepsAll(g) == g

\* MATCH (n) DETACH DELETE n
Wipe(g) == EmptyGraph

\* CREATE (cat:Category {id: $id, name: $name})
CreateCategory(g, r, k, row) ==
    [g EXCEPT !.nodes = @ \cup {Node("Category", row.id, r, "-")}]

\* Variant of CreateProduct: the category is looked up with OPTIONAL MATCH, so
\* that the Product node is created also when no category matches.
CreateProductOptionalMatch(g, r, k, row) ==
    LET cats == Matching(g, "Category", row.category_id)
    IN  IF cats = {}
        THEN [g EXCEPT !.nodes = @ \cup {Node("Product", row.id, r, "-")}]
        ELSE [nodes |-> g.nodes \cup {Node("Product", row.id, r, c.by) : c \in cats},
              rels  |-> g.rels \cup
                        {Rel("IN_CATEGORY", Node("Product", row.id, r, c.by), c, r, k, 0) :
                             c \in cats}]

\* MATCH (cat:Category {id: $category_id})
\* CREATE (p:Product {...}) CREATE (p)-[:IN_CATEGORY]->(cat)
CreateProduct(g, r, k, row) ==
    LET cats == Matching(g, "Category", row.category_id)
    IN  [nodes |-> g.nodes \cup {Node("Product", row.id, r, c.by) : c \in cats},
         rels  |-> g.rels \cup
                   {Rel("IN_CATEGORY", Node("Product", row.id, r, c.by), c, r, k, 0) :
                        c \in cats}]

\* CREATE (c:Customer {id: $id, name: $name, join_date: date($join_date)})
CreateCustomer(g, r, k, row) ==
    [g EXCEPT !.nodes = @ \cup {Node("Customer", row.id, r, "-")}]

\* Variant of CreateOrder: the Order node and its PLACED relationship are
\* written by two statements, and the second is missing.
CreateOrderNoRel(g, r, k, row) ==
    LET custs == Matching(g, "Customer", row.customer_id)
    IN  [g EXCEPT !.nodes = @ \cup {Order(row, r, c) : c \in custs}]

\* MATCH (c:Customer {id: $customer_id})
\* CREATE (o:Order {...}) CREATE (c)-[:PLACED]->(o)
CreateOrder(g, r, k, row) ==
    LET custs == Matching(g, "Customer", row.customer_id)
    IN  [nodes |-> g.nodes \cup {Order(row, r, c) : c \in custs},
         rels  |-> g.rels \cup
                   {Rel("PLACED", c, Order(row, r, c), r, k, 0) :
                        c \in custs}]

\* Variant of CreateContains: the relationship is created from the row's keys
\* without matching its endpoints in the store.
CreateContainsUnmatched(g, r, k, row) ==
    [g EXCEPT !.rels = @ \cup
        {Rel("CONTAINS", Node("Order", row.order_id, r, "-"),
             Node("Product", row.product_id, r, "-"), r, k, row.quantity)}]

\* MATCH (o:Order {id: $order_id}) MATCH (p:Product {id: $product_id})
\* CREATE (o)-[:CONTAINS {quantity: $quantity}]->(p)
CreateContains(g, r, k, row) ==
    LET os == Matching(g, "Order", row.order_id)
        ps == Matching(g, "Product", row.product_id)
    IN  [g EXCEPT !.rels = @ \cup
            {Rel("CONTAINS", o, p, r, k, row.quantity) : o \in os, p \in ps}]

\* MATCH (c:Customer {id: $customer_id}) MATCH (p:Product {id: $product_id})
\* CREATE (c)-[:INTERACTED {event_type: .., timestamp: ..}]->(p)
CreateInteracted(g, r, k, row) ==
    LET cs == Matching(g, "Customer", row.customer_id)
        ps == Matching(g, "Product", row.product_id)
    IN  [g EXCEPT !.rels = @ \cup
            {Rel("INTERACTED", c, p, r, k, DateTime(row.ts)) : c \in cs, p \in ps}]

\* The statement a stage issues for row number k of its table.
Statement(stage, g, r, k, row) ==
    CASE stage = "categories"  -> CreateCategory(g, r, k, row)
      [] stage = "products"    -> CreateProduct(g, r, k, row)
      [] stage = "customers"   -> CreateCustomer(g, r, k, row)
      [] stage = "orders"      -> CreateOrder(g, r, k, row)
      [] stage = "order_items" -> CreateContains(g, r, k, row)
      [] stage = "events"      -> CreateInteracted(g, r, k, row)

\* Number of result rows of the statement's MATCH part, that is, of times its
\* CREATE part ran (1 for a statement without MATCH).
Matched(stage, g, row) ==
    CASE stage = "categories"  -> 1
      [] stage = "products"    -> Cardinality(Matching(g, "Category", row.category_id))
      [] stage = "customers"   -> 1
      [] stage = "orders"      -> Cardinality(Matching(g, "Customer", row.customer_id))
      [] stage = "order_items" -> Cardinality(Matching(g, "Order", row.order_id))
                                  * Cardinality(Matching(g, "Product", row.product_id))
      [] stage = "events"      -> Cardinality(Matching(g, "Customer", row.customer_id))
                                  * Cardinality(Matching(g, "Product", row.product_id))

\* ------------------------------------------------------------------- runs
\* Variant of EtlOrder: the Orders stage runs before the Customers stage.
EtlOrderOrdersFirst ==
    <<"categories", "products", "orders", "customers", "order_items", "events">>

\* etl(): Categories, Products, Customers, Orders, Order Items, Events
EtlOrder == <<"categories", "products", "customers", "orders", "order_items", "events">>

\* Variant of MigrateOrder: the Products stage runs before the Categories stage.
MigrateOrderProductsFirst ==
    <<"customers", "products", "categories", "orders", "order_items", "events">>

\* migrate_to_neo4j(): Customers, Categories, Products, Orders, Order Items, Events
MigrateOrder == <<"customers", "categories", "products", "orders", "order_items", "events">>

StageOrder(kind) == IF kind = "migrate" THEN MigrateOrder ELSE EtlOrder

\* No gate call under way.
NoError == [what |-> "-", store |-> "-", attempts |-> 0]

IdleGate ==
    [store   |-> "-",      \* postgres, neo4j
     max     |-> 0,        \* max_retries
     delay   |-> 0,        \* delay
     attempt |-> 0,        \* the loop variable of range(max_retries)
     pc      |-> "idle",   \* idle, probe, wait, returned, raised
     trace   |-> <<>>,     \* the probes and waits made so far, in order
     open    |-> 0,        \* drivers created by the call and not closed
     error   |-> NoError]  \* the exception the call raised

IdleRun ==
    [kind  |-> "-",      \* the trigger path
     alone |-> FALSE,    \* no other run was in flight when this one was triggered
     pc    |-> "idle",   \* idle, gate, wipe, schema, read, write, done, failed
     st    |-> 0,        \* index of the current stage in StageOrder(kind)
     rows  |-> <<>>,     \* the rows read for the current stage
     i     |-> 0,        \* index of the next row to write (in the schema step:
                         \* number of schema statements executed)
     log   |-> <<>>,     \* the graph statements issued so far, in order
     lens  |-> <<>>,     \* len(df_*) of the stages read so far
     open  |-> FALSE,    \* holds an open connection / driver / session
     err   |-> FALSE,    \* a store call of this run has raised
     out   |-> "-",      \* how the run function ended: returned, raised
     resp  |-> "-",      \* HTTP response to the trigger: started, success, 500
     via   |-> "-",      \* the trigger path, where the model tells them apart
     ran   |-> <<>>,     \* the schema statements executed, in order
     msg   |-> {},       \* what the printed line of a failed schema statement carries
     seen  |-> <<>>,     \* the committed states of the source since the trigger,
                         \* in order, once another writer has changed it
     final |-> EmptyGraph] \* the graph as the run left it on completing

LogEntry(op, row, made) == [op |-> op, row |-> row, made |-> made]

InFlight(r) == run[r].pc \notin {"idle", "done", "failed"}

\* Before the first trigger the store holds one node that no run created.
Init ==
    /\ src \in Sources
    /\ script \in {NoScript, OneStatementScript}
    /\ graph = [nodes |-> {Sentinel}, rels |-> {}]
    /\ run = [r \in Runs |-> IdleRun]
    /\ started = 0
    /\ gate = IdleGate

\* A trigger: etl() is entered (by the background task POST /etl/run queued, or
\* by python etl.py), or POST /neo4j/migrate enters its handler, which opens a
\* session on the shared driver.
Trigger(r, kind) ==
    /\ run[r].pc = "idle"
    /\ Ord(r) = started + 1
    /\ started' = started + 1
    /\ run' = [run EXCEPT ![r] =
                  [@ EXCEPT !.kind = kind,
                            !.alone = \A q \in Runs \ {r} : ~InFlight(q),
                            !.pc   = IF kind = "migrate" THEN "wipe" ELSE "gate",
                            !.open = (kind = "migrate")]]
    /\ UNCHANGED <<src, script, graph, gate>>

\* etl(): wait_for_postgres(), wait_for_neo4j(), then connect to both stores.
Gate(r) ==
    /\ run[r].pc = "gate"
    /\ run' = [run EXCEPT ![r] = [@ EXCEPT !.pc = "wipe", !.open = TRUE]]
    /\ UNCHANGED <<src, script, graph, started, gate>>

\* Variant of WipeStep: the delete statement is issued only together with the
\* schema set-up, that is, when the script exists.
WipeStepOnlyWithScript(r) ==
    /\ run[r].pc = "wipe"
    /\ graph' = IF script.exists THEN Wipe(graph) ELSE graph
    /\ run' = [run EXCEPT ![r] =
                  [@ EXCEPT !.log = IF script.exists
                                    THEN Append(@, LogEntry("wipe", 0, 0)) ELSE @,
                            !.pc  = IF run[r].kind = "migrate" THEN "read" ELSE "schema",
                            !.st  = IF run[r].kind = "migrate" THEN 1 ELSE 0]]
    /\ UNCHANGED <<src, script, started, gate>>

\* MATCH (n) DETACH DELETE n: the first statement of both entry points.
WipeStep(r) ==
    /\ run[r].pc = "wipe"
    /\ graph' = Wipe(graph)
    /\ run' = [run EXCEPT ![r] =
                  [@ EXCEPT !.log = Append(@, LogEntry("wipe", 0, 0)),
                            !.pc  = IF run[r].kind = "migrate" THEN "read" ELSE "schema",
                            !.st  = IF run[r].kind = "migrate" THEN 1 ELSE 0]]
    /\ UNCHANGED <<src, script, started, gate>>

\* run_cypher_file: the locals of run record q after one more turn of the
\* loop over stmts: session.run(statement) for the next statement, or, with
\* no statement left, on to the first stage.
SchemaGoOn(q, stmts) ==
    LET j == q.i + 1
        x == [q EXCEPT !.log = Append(@, LogEntry("schema", j, 0)),
                       !.ran = Append(@, stmts[j])]
    IN  IF j > Len(stmts) THEN [q EXCEPT !.pc = "read", !.st = 1, !.i = 0]
        ELSE IF j = Len(stmts) THEN [x EXCEPT !.pc = "read", !.st = 1, !.i = 0]
        ELSE [x EXCEPT !.i = j]

\* Variant of SchemaStep: the script is opened without testing that it
\* exists, and a missing file raises.
SchemaStepMissingFails(r) ==
    /\ run[r].pc = "schema"
    /\ run' = [run EXCEPT ![r] =
                  IF script.exists THEN SchemaGoOn(@, ScriptStatements(script))
                  ELSE [@ EXCEPT !.pc = "failed", !.err = TRUE, !.open = FALSE,
                                 !.out = "raised"]]
    /\ UNCHANGED <<src, script, graph, started, gate>>

\* etl(): run_cypher_file when queries.cypher exists, else skip.  One step is
\* one session.run(statement) of the loop of run_cypher_file.
SchemaStep(r) ==
    /\ run[r].pc = "schema"
    /\ run' = [run EXCEPT ![r] = SchemaGoOn(@, ScriptStatements(script))]
    /\ UNCHANGED <<src, script, graph, started, gate>>

NumStages == Len(EtlOrder)

\* Variant of Advance: the function returns without closing its handles.
AdvanceNoClose(q, g) ==
    IF q.st < Len(EtlOrder)
    THEN [q EXCEPT !.pc = "read", !.st = q.st + 1, !.rows = <<>>, !.i = 0]
    ELSE [q EXCEPT !.pc = "done", !.rows = <<>>, !.i = 0,
                   !.out = "returned",
                   !.resp = IF q.kind = "migrate" THEN "success" ELSE q.resp,
                   !.final = g]

\* The locals of run record q after its current stage is exhausted, with the
\* graph g in the store: on to the next stage, or the function returns
\* (etl(): summary, finally-block closes; migrate: session closes, 200).
Advance(q, g) ==
    IF q.st < NumStages
    THEN [q EXCEPT !.pc = "read", !.st = q.st + 1, !.rows = <<>>, !.i = 0]
    ELSE [q EXCEPT !.pc = "done", !.rows = <<>>, !.i = 0, !.open = FALSE,
                   !.out = "returned",
                   !.resp = IF q.kind = "migrate" THEN "success" ELSE q.resp,
                   !.final = g]

\* pd.read_sql("SELECT * FROM <table>") / cur.execute + fetchall
ReadStep(r) ==
    /\ run[r].pc = "read"
    /\ LET stage == StageOrder(run[r].kind)[run[r].st]
           rows  == src[stage]
           q     == [run[r] EXCEPT !.lens = Append(@, Len(rows))]
       IN  run' = [run EXCEPT ![r] =
                     IF rows = <<>> THEN Advance(q, graph)
                     ELSE [q EXCEPT !.pc = "write", !.rows = rows, !.i = 1]]
    /\ UNCHANGED <<src, script, graph, started, gate>>

\* The store rejects the statement of a row: its CREATE part is evaluated for
\* a matched row and datetime($ts) cannot parse the text it is given.
Rejected(stage, g, row) ==
    /\ stage \in {"orders", "events"}
    /\ Matched(stage, g, row) > 0
    /\ ~Parses(row.ts)

\* The statement the run is about to issue for its next row is rejected.
NextRejected(r) ==
    LET stage == StageOrder(run[r].kind)[run[r].st]
    IN  Rejected(stage, graph, Params(run[r].kind, stage, run[r].rows[run[r].i]))

\* One iteration of a stage's for-loop: the statement for the next row.
WriteStep(r) ==
    /\ run[r].pc = "write"
    /\ ~NextRejected(r)
    /\ LET stage == StageOrder(run[r].kind)[run[r].st]
           k     == run[r].i
           row   == Params(run[r].kind, stage, run[r].rows[k])
           g     == Statement(stage, graph, r, k, row)
           q     == [run[r] EXCEPT
                        !.log = Append(@, LogEntry(stage, k, Matched(stage, graph, row)))]
       IN  /\ graph' = g
           /\ run' = [run EXCEPT ![r] =
                         IF k < Len(run[r].rows) THEN [q EXCEPT !.i = k + 1]
                         ELSE Advance(q, g)]
    /\ UNCHANGED <<src, script, started, gate>>

\* Variant of Raise: the exception is caught and dropped where it is raised,
\* and the run goes on with the same call.
RaiseSwallowed(r) ==
    /\ run[r].pc \in {"gate", "wipe", "schema", "read", "write"}
    /\ ~run[r].err
    /\ run' = [run EXCEPT ![r] = [@ EXCEPT !.err = TRUE]]
    /\ UNCHANGED <<src, script, graph, started, gate>>

\* The store call the run is about to make raises.  etl(): the exception is
\* printed, re-raised, and the finally-block closes both handles; migrate:
\* the session closes and the handler answers HTTP 500.
Raise(r) ==
    /\ run[r].pc \in {"gate", "wipe", "schema", "read", "write"}
    /\ run[r].pc = "schema" => run[r].i < Len(ScriptStatements(script))
    /\ run' = [run EXCEPT ![r] =
                  [@ EXCEPT !.pc = "failed", !.err = TRUE, !.open = FALSE,
                            !.out = "raised",
                            !.msg = IF run[r].pc = "schema"
                                    THEN {<<"index", run[r].i + 1>>, <<"error", "e">>}
                                    ELSE @,
                            !.resp = IF run[r].kind = "migrate" THEN "500" ELSE @]]
    /\ UNCHANGED <<src, script, graph, started, gate>>

\* The statement of the next row raises because the store rejects it.
Reject(r) ==
    /\ run[r].pc = "write"
    /\ NextRejected(r)
    /\ Raise(r)

Next ==
    \/ \E r \in Runs, kind \in Kinds : Trigger(r, kind)
    \/ \E r \in Runs : Gate(r)
    \/ \E r \in Runs : WipeStep(r)
    \/ \E r \in Runs : SchemaStep(r)
    \/ \E r \in Runs : ReadStep(r)
    \/ \E r \in Runs : WriteStep(r)
    \/ \E r \in Runs : Reject(r)
    \/ \E r \in Runs : Raise(r)

Spec == Init /\ [][Next]_vars

\* ------------------------------------------------- one run, by trigger path
\* POST /etl/run, python etl.py, POST /neo4j/migrate
Paths == {"POST /etl/run", "etl()", "POST /neo4j/migrate"}

\* trigger_etl: background_tasks.add_task(run_etl), then answers "started";
\* the task runs etl() after the response is sent.  The other two paths are
\* those of Trigger.
TriggerPath(r, path) ==
    /\ run[r].pc = "idle"
    /\ Ord(r) = started + 1
    /\ started' = started + 1
    /\ run' = [run EXCEPT ![r] =
                  [@ EXCEPT !.kind = IF path = "POST /neo4j/migrate" THEN "migrate" ELSE "etl",
                            !.via  = path,
                            !.alone = \A q \in Runs \ {r} : ~InFlight(q),
                            !.pc   = IF path = "POST /neo4j/migrate" THEN "wipe" ELSE "gate",
                            !.open = (path = "POST /neo4j/migrate"),
                            !.resp = IF path = "POST /etl/run" THEN "started" ELSE @]]
    /\ UNCHANGED <<src, script, graph, gate>>

\* What the invoking layer has got from the run: the HTTP response for the
\* two endpoints, the way etl() ended for the command line.
CallerSees(r) == IF run[r].via = "etl()" THEN run[r].out ELSE run[r].resp

InitRun ==
    /\ src \in Sources
    /\ script \in Scripts
    /\ graph = [nodes |-> {Sentinel}, rels |-> {}]
    /\ run = [r \in Runs |-> IdleRun]
    /\ started = 0
    /\ gate = IdleGate

\* The steps of a triggered run: each is a store call that returns or raises.
Proceed(r) ==
    \/ Gate(r)
    \/ WipeStep(r)
    \/ SchemaStep(r)
    \/ ReadStep(r)
    \/ WriteStep(r)
    \/ Reject(r)
    \/ Raise(r)

NextRun ==
    \/ \E path \in Paths : TriggerPath("r1", path)
    \/ Proceed("r1")

SpecRun == InitRun /\ [][NextRun]_vars

\* Every store call of the run returns or raises: the run keeps taking steps.
FairRun == InitRun /\ [][NextRun]_vars /\ WF_vars(Proceed("r1"))

\* ------------------------------------------------------ readiness gate
\* wait_for_postgres / wait_for_neo4j called on their own, with any
\* max_retries in 0..MaxAttempts and any delay in 1..MaxDelay.
Stores == {"postgres", "neo4j"}

Event(ev, d) == [ev |-> ev, d |-> d]

\* range(max_retries) is empty for max_retries = 0: the loop body never runs
\* and the function returns.
GateCall(store, max, delay) ==
    /\ gate.pc = "idle"
    /\ gate' = [IdleGate EXCEPT !.store = store, !.max = max, !.delay = delay,
                                !.pc = IF max = 0 THEN "returned" ELSE "probe"]
    /\ UNCHANGED <<src, script, graph, run, started>>

\* The probe succeeds: what it opened is closed and the function returns.
ProbeOk ==
    /\ gate.pc = "probe"
    /\ gate' = [gate EXCEPT !.trace = Append(@, Event("ok", 0)),
                            !.pc = "returned"]
    /\ UNCHANGED <<src, script, graph, run, started>>

\* What the except clause does with a caught error: wait and go round again
\* before the last attempt, raise the terminal error at the last one.
Caught(g) ==
    IF g.attempt < g.max - 1
    THEN [g EXCEPT !.pc = "wait"]
    ELSE [g EXCEPT !.pc = "raised",
                   !.error = [what |-> "not ready after", store |-> g.store,
                              attempts |-> g.max]]

\* The probe raises an error the except clause catches: OperationalError from
\* psycopg2.connect, any Exception for Neo4j. For Neo4j the error comes from
\* GraphDatabase.driver (nothing was opened) or from session.run (the session
\* is closed by its with-block, driver.close() is skipped).
ProbeRefused ==
    /\ gate.pc = "probe"
    /\ \E at \in IF gate.store = "neo4j" THEN {"driver", "run"} ELSE {"connect"} :
          gate' = Caught([gate EXCEPT !.trace = Append(@, Event("refused", 0)),
                                      !.open = IF at = "run" THEN @ + 1 ELSE @])
    /\ UNCHANGED <<src, script, graph, run, started>>

\* psycopg2.connect raises an error that is not an OperationalError: no except
\* clause matches and it leaves wait_for_postgres as it is.
ProbeOther ==
    /\ gate.pc = "probe"
    /\ gate.store = "postgres"
    /\ gate' = [gate EXCEPT !.trace = Append(@, Event("other", 0)),
                            !.pc = "raised",
                            !.error = [what |-> "other", store |-> "-",
                                       attempts |-> 0]]
    /\ UNCHANGED <<src, script, graph, run, started>>

\* time.sleep(delay), then the next iteration of the loop.
WaitStep ==
    /\ gate.pc = "wait"
    /\ gate' = [gate EXCEPT !.trace = Append(@, Event("wait", gate.delay)),
                            !.attempt = @ + 1,
                            !.pc = "probe"]
    /\ UNCHANGED <<src, script, graph, run, started>>

InitGate ==
    /\ src = [s \in Stages |-> <<>>]
    /\ script = NoScript
    /\ graph = EmptyGraph
    /\ run = [r \in Runs |-> IdleRun]
    /\ started = 0
    /\ gate = IdleGate

NextGate ==
    \/ \E store \in Stores, max \in 0..MaxAttempts, delay \in 1..MaxDelay :
          GateCall(store, max, delay)
    \/ ProbeOk
    \/ ProbeRefused
    \/ ProbeOther
    \/ WaitStep

SpecGate == InitGate /\ [][NextGate]_vars

\* ------------------------------------------- the two entry points compared
\* One run of each entry point on the same source, the second started from
\* the store as the first found it; no script, and no store call fails
\* except where the store rejects a statement.
PriorGraph == [nodes |-> {Sentinel}, rels |-> {}]

InitPair ==
    /\ src \in Sources
    /\ script = NoScript
    /\ graph = PriorGraph
    /\ run = [r \in Runs |-> IdleRun]
    /\ started = 0
    /\ gate = IdleGate

\* After the first run has ended the store is put back as it was and the
\* other entry point is triggered.
Second ==
    /\ run["r1"].pc \in {"done", "failed"}
    /\ run["r2"].pc = "idle"
    /\ graph' = PriorGraph
    /\ started' = started + 1
    /\ \E kind \in Kinds \ {run["r1"].kind} :
          run' = [run EXCEPT !["r2"] =
                     [@ EXCEPT !.kind = kind,
                               !.alone = TRUE,
                               !.pc   = IF kind = "migrate" THEN "wipe" ELSE "gate",
                               !.open = (kind = "migrate")]]
    /\ UNCHANGED <<src, script, gate>>

\* The steps of a run whose store calls all return, but for a rejected
\* statement.
Steps(r) ==
    \/ Gate(r)
    \/ WipeStep(r)
    \/ SchemaStep(r)
    \/ ReadStep(r)
    \/ WriteStep(r)
    \/ Reject(r)

NextPair ==
    \/ \E kind \in Kinds : Trigger("r1", kind)
    \/ Second
    \/ \E r \in Runs : Steps(r)

SpecPair == InitPair /\ [][NextPair]_vars

\* ------------------------------------------ a run and a concurrent writer
\* Sequence y is sequence x with one more row at its end.
OneMore(x, y) == Len(y) = Len(x) + 1 /\ SubSeq(y, 1, Len(x)) = x

\* The source after a committed change, and what the run in flight could
\* have seen of the source since its trigger.
Committed(r, s) ==
    /\ src' = s
    /\ run' = [run EXCEPT ![r] =
                  [@ EXCEPT !.seen = IF @ = <<>> THEN <<src, s>> ELSE Append(@, s)]]
    /\ UNCHANGED <<script, graph, started, gate>>

\* Another client of the relational store commits an INSERT of one row while
\* the run is in flight.  pg_conn runs at the store's default isolation level
\* (read committed): each SELECT of the run sees what is committed when it is
\* issued.
SourceInsert ==
    /\ InFlight("r1")
    /\ Len(run["r1"].seen) <= MaxWrites
    /\ \E s \in Sources, t \in Stages :
          /\ \A u \in Stages \ {t} : s[u] = src[u]
          /\ OneMore(src[t], s[t])
          /\ Committed("r1", s)

\* Another client commits a DELETE of the last row of a table.
SourceDelete ==
    /\ InFlight("r1")
    /\ Len(run["r1"].seen) <= MaxWrites
    /\ \E s \in Sources, t \in Stages :
          /\ \A u \in Stages \ {t} : s[u] = src[u]
          /\ OneMore(s[t], src[t])
          /\ Committed("r1", s)

InitSnap ==
    /\ src \in Sources
    /\ script = NoScript
    /\ graph = PriorGraph
    /\ run = [r \in Runs |-> IdleRun]
    /\ started = 0
    /\ gate = IdleGate

NextSnap ==
    \/ \E kind \in Kinds : Trigger("r1", kind)
    \/ Steps("r1")
    \/ SourceInsert
    \/ SourceDelete

SpecSnap == InitSnap /\ [][NextSnap]_vars

\* ================================================================ claims
\* The statements a run issued for source rows (wipe and schema left out).
RowWrites(r) == SelectSeq(run[r].log, LAMBDA e : e.op \in Stages)

Done(r) == run[r].pc = "done"

\* C1: at most one migration run is in flight at a time: the run triggered
\* second has issued no statement (neither its wipe nor a create) while the
\* run triggered before it is started and not yet completed or failed.
C1_OneRunInFlight ==
    \A r, q \in Runs :
        (Ord(q) < Ord(r) /\ InFlight(q)) => run[r].log = <<>>

\* C2: full wipe: the graph a completed run leaves holds no node and no
\* relationship other than those that run created.
C2_FullWipe ==
    \A r \in Runs :
        Done(r) => /\ \A n \in run[r].final.nodes : n.by = r
                   /\ \A e \in run[r].final.rels : e.by = r

\* What a graph holds, without the identity of the creating run.
NodeContent(n) == [label |-> n.label, id |-> n.id, timestamp |-> n.timestamp]

RelContent(e) ==
    [type |-> e.type, from |-> NodeContent(e.from), to |-> NodeContent(e.to),
     row |-> e.row, prop |-> e.prop]

SameContent(g, h) ==
    /\ {NodeContent(n) : n \in g.nodes} = {NodeContent(n) : n \in h.nodes}
    /\ {RelContent(e) : e \in g.rels} = {RelContent(e) : e \in h.rels}
    /\ Cardinality(g.nodes) = Cardinality(h.nodes)
    /\ Cardinality(g.rels) = Cardinality(h.rels)

\* Two runs in a row: r2 was triggered after r1 had completed, and completed.
TwiceInARow == Done("r1") /\ Done("r2") /\ run["r2"].alone

\* C3: idempotence: when the migration runs twice in a row on the unchanged
\* source, the graph after the second run has the same nodes and
\* relationships (same counts, same content) as the graph after the first.
C3_Idempotent ==
    TwiceInARow => SameContent(run["r1"].final, run["r2"].final)

\* the case of C3: two completed runs in a row that each wrote a relationship
C3_Witness ==
    /\ TwiceInARow
    /\ run["r1"].final.rels # {}
    /\ run["r2"].final.rels # {}

\* Every foreign key of the source names a row of the referenced table.
AllKeysResolve ==
    /\ \A k \in DOMAIN src.products : src.products[k].category_id <= Len(src.categories)
    /\ \A k \in DOMAIN src.orders : src.orders[k].customer_id <= Len(src.customers)
    /\ \A k \in DOMAIN src.order_items :
          /\ src.order_items[k].order_id <= Len(src.orders)
          /\ src.order_items[k].product_id <= Len(src.products)
    /\ \A k \in DOMAIN src.events :
          /\ src.events[k].customer_id <= Len(src.customers)
          /\ src.events[k].product_id <= Len(src.products)

CountNodes(g, label) == Cardinality({n \in g.nodes : n.label = label})

CountRels(g, type) == Cardinality({e \in g.rels : e.type = type})

CountsMatch(g) ==
    /\ CountNodes(g, "Category") = Len(src.categories)
    /\ CountNodes(g, "Product") = Len(src.products)
    /\ CountNodes(g, "Customer") = Len(src.customers)
    /\ CountNodes(g, "Order") = Len(src.orders)
    /\ CountRels(g, "IN_CATEGORY") = Len(src.products)
    /\ CountRels(g, "PLACED") = Len(src.orders)
    /\ CountRels(g, "CONTAINS") = Len(src.order_items)
    /\ CountRels(g, "INTERACTED") = Len(src.events)

\* C4: count preservation: when every foreign key resolves, the graph a
\* completed run leaves has as many Category, Product, Customer and Order
\* nodes and IN_CATEGORY, PLACED, CONTAINS and INTERACTED relationships as
\* the source has categories, products, customers, orders, products, orders,
\* order_items and events rows.
C4_CountPreservation ==
    \A r \in Runs : (Done(r) /\ AllKeysResolve) => CountsMatch(run[r].final)

\* C5: dangling reference handling: a run that issued the statement of an
\* order_items row whose order_id or product_id matched no node has aborted:
\* that statement is the last one it issued and the run is failed.
C5_DanglingItemAborts ==
    \A r \in Runs : \A j \in DOMAIN run[r].log :
        (run[r].log[j].op = "order_items" /\ run[r].log[j].made = 0)
            => (run[r].pc = "failed" /\ j = Len(run[r].log))

\* C6: no row is skipped silently: when a run ends successfully, the count
\* it reports for each stage (the number of rows read) is the number of
\* rows of that stage whose statement wrote something; the code keeps no
\* record of skipped rows.
C6_NoSilentSkip ==
    \A r \in Runs :
        Done(r) =>
            \A s \in 1..NumStages :
                run[r].lens[s] =
                    Cardinality({j \in DOMAIN run[r].log :
                                    /\ run[r].log[j].op = StageOrder(run[r].kind)[s]
                                    /\ run[r].log[j].made > 0})

\* The labels a relationship of each type joins.
EndLabels(type) ==
    CASE type = "IN_CATEGORY" -> <<"Product", "Category">>
      [] type = "PLACED"      -> <<"Customer", "Order">>
      [] type = "CONTAINS"    -> <<"Order", "Product">>
      [] type = "INTERACTED"  -> <<"Customer", "Product">>

\* C7: referential completeness, in every state of the store: both endpoints
\* of every relationship are nodes of the store and carry the labels of the
\* relationship's type, and every CONTAINS relationship joins an Order and a
\* Product whose ids are the order_id and product_id of an order_items row.
C7_ReferentialCompleteness ==
    \A e \in graph.rels :
        /\ e.from \in graph.nodes
        /\ e.to \in graph.nodes
        /\ e.from.label = EndLabels(e.type)[1]
        /\ e.to.label = EndLabels(e.type)[2]
        /\ e.type = "CONTAINS" =>
              \E k \in DOMAIN src.order_items :
                  /\ src.order_items[k].order_id = e.from.id
                  /\ src.order_items[k].product_id = e.to.id

\* the case of C7: the store holds a relationship of each of the four types
C7_Witness ==
    \A t \in {"IN_CATEGORY", "PLACED", "CONTAINS", "INTERACTED"} :
        \E e \in graph.rels : e.type = t

\* C8: node ids are unique per label, in every state of the store, also when
\* two runs overlap: no two nodes with the same label have the same id.
C8_UniqueIds ==
    \A n, m \in graph.nodes :
        (n.label = m.label /\ n.id = m.id) => n = m

\* The stage order the specification fixes.
FixedOrder == <<"categories", "products", "customers", "orders", "order_items", "events">>

\* The order of the stages in POST /neo4j/migrate.
HandlerOrder == <<"customers", "categories", "products", "orders", "order_items", "events">>

Pos(order, stage) == CHOOSE k \in DOMAIN order : order[k] = stage

\* The row statements of run r follow the stage order `order`: each stage
\* starts at its first row, rows go up one by one, and the next statement
\* after the last row of a stage belongs to a later stage.
FollowsOrder(r, order) ==
    LET w == RowWrites(r)
    IN  \A j \in DOMAIN w :
            IF j = 1 THEN w[j].row = 1
            ELSE \/ /\ w[j].op = w[j-1].op
                    /\ w[j].row = w[j-1].row + 1
                 \/ /\ Pos(order, w[j-1].op) < Pos(order, w[j].op)
                    /\ w[j-1].row = Len(src[w[j-1].op])
                    /\ w[j].row = 1

C10_FailFast ==
    [][\A r \in Runs :
          run'[r].err =>
              /\ run'[r].log = run[r].log
              /\ run'[r].pc = "failed"
              /\ run'[r].out = "raised"
              /\ run'[r].kind = "migrate" => run'[r].resp = "500"]_vars

\* the case of C10: a run failed while rows of its stage were still to be
\* written, after it had written a row, and the other run went on after that
C10_Witness ==
    /\ run["r1"].pc = "failed"
    /\ run["r1"].err
    /\ run["r1"].i > 1
    /\ run["r1"].i <= Len(run["r1"].rows)
    /\ Done("r2")

\* C11: failure is reported to the invoking layer: whenever a run has failed,
\* what the invoker of its trigger path has got is a failure (HTTP 500, or
\* etl() raising), never a success or a "started" answer.
C11_FailureReported ==
    \A r \in Runs :
        run[r].pc = "failed" => CallerSees(r) \in {"500", "raised"}

\* C12: guaranteed release: whenever a function that opens connections,
\* drivers or sessions has returned or raised, everything it opened has been
\* closed: a readiness gate that has ended holds no open driver, and a run
\* that has ended holds no open connection, driver or session.
C12_GuaranteedRelease ==
    /\ gate.pc \in {"returned", "raised"} => gate.open = 0
    /\ \A r \in Runs : run[r].pc \in {"done", "failed"} => ~run[r].open

\* The probes of a gate trace, in order, waits left out.
Probes(trace) == SelectSeq(trace, LAMBDA e : e.ev # "wait")

\* The number of probes among the first i entries of a gate trace.
ProbesUpTo(trace, i) == Len(Probes(SubSeq(trace, 1, i)))

\* C13: readiness gate retry budget: for either store and any probe outcomes,
\* the gate makes at most maxAttempts probes; every failed probe before the
\* last allowed one is followed by one wait of delay and then another probe;
\* the gate returns at the first successful probe; and after maxAttempts
\* failed probes it raises the terminal error naming the store and the
\* attempt count, without waiting again.
C13_RetryBudget ==
    LET t == gate.trace
        n == Len(t)
    IN  /\ Len(Probes(t)) <= gate.max
        /\ \A i \in 1..n :
              (t[i].ev \in {"refused", "other"} /\ ProbesUpTo(t, i) < gate.max) =>
                  /\ i < n => t[i + 1] = Event("wait", gate.delay)
                  /\ i = n => gate.pc = "wait"
        /\ \A i \in 1..n :
              t[i].ev = "wait" =>
                  /\ i < n => t[i + 1].ev # "wait"
                  /\ i = n => gate.pc = "probe"
        /\ \A i \in 1..n :
              t[i].ev = "ok" => i = n /\ gate.pc = "returned"
        /\ (gate.max > 0 /\ n > 0 /\ t[n].ev # "ok"
               /\ ProbesUpTo(t, n) = gate.max) =>
              /\ t[n].ev # "wait"
              /\ gate.pc = "raised"
              /\ gate.error = [what |-> "not ready after", store |-> gate.store,
                               attempts |-> gate.max]

\* The texts of the segments that are not white space only, in file order.
RECURSIVE NonEmptyTexts(_)
NonEmptyTexts(segs) ==
    IF segs = <<>> THEN <<>>
    ELSE IF Head(segs).text = "" THEN NonEmptyTexts(Tail(segs))
    ELSE <<Head(segs).text>> \o NonEmptyTexts(Tail(segs))

IsPrefix(a, b) == Len(a) <= Len(b) /\ \A k \in DOMAIN a : a[k] = b[k]

\* The index in the printed line of a failed schema statement (0: none failed).
FailedIndex(r) ==
    IF \E k \in 1..MaxSegs : <<"index", k>> \in run[r].msg
    THEN CHOOSE k \in 1..MaxSegs : <<"index", k>> \in run[r].msg
    ELSE 0

\* C14: a schema statement failure is fatal: the statements executed are the
\* non-empty segments of the script in file order (all of them once the run
\* is past the schema step); when statement k fails, the run is failed,
\* exactly the k-1 statements before it have been executed, and the run has
\* issued no statement of a migration stage and created nothing.
C14_SchemaFailureFatal ==
    \A r \in Runs :
        /\ IsPrefix(run[r].ran, NonEmptyTexts(script.segs))
        /\ (run[r].kind = "etl" /\ run[r].pc \in {"read", "write", "done"} /\ script.exists)
              => run[r].ran = NonEmptyTexts(script.segs)
        /\ run[r].msg # {} =>
              /\ run[r].pc = "failed"
              /\ Len(run[r].ran) = FailedIndex(r) - 1
              /\ RowWrites(r) = <<>>
              /\ \A n \in graph.nodes : n.by # r
              /\ \A e \in graph.rels : e.by # r

\* the case of C14: the second statement of a script with an empty segment
\* ahead of it failed, in a run whose source has rows to migrate
C14_Witness ==
    /\ run["r1"].msg # {}
    /\ FailedIndex("r1") = 2
    /\ script.segs[1].text = ""
    /\ Len(NonEmptyTexts(script.segs)) = 2
    /\ src.categories # <<>>

\* C15: the error reported for a failing schema statement names the 1-based
\* index of the statement among the non-empty statements and its text.
C15_ErrorNamesIndexAndText ==
    \A r \in Runs :
        run[r].msg # {} =>
            /\ FailedIndex(r) = Len(run[r].ran) + 1
            /\ <<"text", NonEmptyTexts(script.segs)[FailedIndex(r)]>> \in run[r].msg

\* C16: a missing schema script is a no-op: the schema step of a run whose
\* script does not exist executes no statement, raises nothing and leaves
\* the run at the first stage, as the last schema statement does.
C16_MissingScriptNoOp ==
    [][\A r \in Runs :
          (run[r].pc = "schema" /\ ~script.exists /\ run'[r] # run[r]) =>
              /\ run'[r].pc = "read"
              /\ run'[r].st = 1
              /\ run'[r].log = run[r].log
              /\ run'[r].ran = <<>>
              /\ ~run'[r].err]_vars

\* the case of C16: a run without script has gone past the schema step and
\* written a Category node
C16_Witness ==
    /\ ~script.exists
    /\ run["r1"].kind = "etl"
    /\ \E j \in DOMAIN run["r1"].log : run["r1"].log[j].op = "categories"

\* C17: the wipe comes first and is unconditional: a run past its wipe step
\* has issued the delete statement, the first statement any run issued is
\* the delete statement (before schema statements and creates), and nothing
\* in the store was created by a run that did not wipe first.
C17_WipeFirst ==
    \A r \in Runs :
        /\ run[r].pc \in {"schema", "read", "write", "done"} => run[r].log # <<>>
        /\ run[r].log # <<>> =>
              /\ run[r].log[1].op = "wipe"
              /\ \A j \in DOMAIN run[r].log : j > 1 => run[r].log[j].op # "wipe"
        /\ (\E n \in graph.nodes : n.by = r) => run[r].log # <<>>

\* the case of C17: an etl() run with a script and a migrate run have both
\* completed, each having created nodes after its wipe
C17_Witness ==
    /\ Done("r1") /\ Done("r2")
    /\ script.exists
    /\ run["r1"].kind = "etl" /\ run["r2"].kind = "migrate"
    /\ \A r \in Runs : Len(RowWrites(r)) >= 2
    /\ \E j \in DOMAIN run["r1"].log : run["r1"].log[j].op = "schema"

\* C18: node and relationship are created together: in every state of the
\* store every Product node has exactly one outgoing IN_CATEGORY
\* relationship and every Order node exactly one incoming PLACED one.
C18_NodeWithRelationship ==
    \A n \in graph.nodes :
        /\ n.label = "Product" =>
              Cardinality({e \in graph.rels : e.type = "IN_CATEGORY" /\ e.from = n}) = 1
        /\ n.label = "Order" =>
              Cardinality({e \in graph.rels : e.type = "PLACED" /\ e.to = n}) = 1

\* the case of C18: the store holds a Product node and an Order node
C18_Witness ==
    /\ \E n \in graph.nodes : n.label = "Product"
    /\ \E n \in graph.nodes : n.label = "Order"

Exists(label, id) == \E n \in graph.nodes : n.label = label /\ n.id = id

\* Run r is about to issue the statement of a row of which a referenced
\* node is not in the store.
LookupFails(r) ==
    /\ run[r].pc = "write"
    /\ LET stage == StageOrder(run[r].kind)[run[r].st]
           row   == run[r].rows[run[r].i]
       IN  CASE stage = "products"    -> ~Exists("Category", row.category_id)
             [] stage = "orders"      -> ~Exists("Customer", row.customer_id)
             [] stage = "order_items" -> \/ ~Exists("Order", row.order_id)
                                         \/ ~Exists("Product", row.product_id)
             [] stage = "events"      -> \/ ~Exists("Customer", row.customer_id)
                                         \/ ~Exists("Product", row.product_id)
             [] OTHER                 -> FALSE

\* C19: a row whose endpoint lookup fails writes nothing: the statement of a
\* product, order, order item or event row whose referenced node does not
\* exist leaves the store as it was.
C19_FailedLookupWritesNothing ==
    [][\A r \in Runs :
          (LookupFails(r) /\ run'[r].log # run[r].log) => graph' = graph]_vars

\* the case of C19: a completed run issued the statement of a product row
\* that matched no category and of an order item row that matched no pair
C19_Witness ==
    /\ Done("r1")
    /\ \E j \in DOMAIN run["r1"].log :
          run["r1"].log[j].op = "products" /\ run["r1"].log[j].made = 0
    /\ \E j \in DOMAIN run["r1"].log :
          run["r1"].log[j].op = "order_items" /\ run["r1"].log[j].made = 0

C22_ReturnsOnlyAfterProbe ==
    gate.pc = "returned" => \E i \in 1..Len(gate.trace) : gate.trace[i].ev = "ok"

\* The stages whose nodes the statements of a stage look up.
Needs(stage) ==
    CASE stage = "products"    -> {"categories"}
      [] stage = "orders"      -> {"customers"}
      [] stage = "order_items" -> {"orders", "products"}
      [] stage = "events"      -> {"customers", "products"}
      [] OTHER                 -> {}

\* The number of statements of a stage among the first j entries of a log.
WritesUpTo(log, stage, j) ==
    Cardinality({i \in 1..j : log[i].op = stage})

\* C23: dependency order holds for both entry points: in a run of etl() and
\* in a run of POST /neo4j/migrate, when a stage that looks up nodes of a
\* label issues a write, the stage that creates that label has written every
\* row of its table.
C23_DependencyOrder ==
    \A r \in Runs :
        \A j \in DOMAIN run[r].log :
            \A d \in Needs(run[r].log[j].op) :
                WritesUpTo(run[r].log, d, j - 1) = Len(src[d])

\* the case of C23: a run of each entry point has completed after a stage with
\* a lookup wrote a row whose lookup matched, its creating stage having rows
C23_Witness ==
    /\ run["r1"].kind = "migrate" /\ run["r2"].kind = "etl"
    /\ Done("r1") /\ Done("r2")
    /\ \E j \in DOMAIN run["r1"].log :
          run["r1"].log[j].op = "products" /\ run["r1"].log[j].made > 0
    /\ \E j \in DOMAIN run["r2"].log :
          run["r2"].log[j].op = "orders" /\ run["r2"].log[j].made > 0

\* C24: the two entry points are equivalent: for every source, a run of
\* etl() with no schema script and a run of POST /neo4j/migrate from the same
\* prior graph both complete or both fail, and when they complete they leave
\* the same nodes and relationships with the same ids and properties.
C24_EntryPointsEquivalent ==
    (\A r \in Runs : run[r].pc \in {"done", "failed"}) =>
        /\ run["r1"].pc = run["r2"].pc
        /\ Done("r1") => SameContent(run["r1"].final, run["r2"].final)

\* The graph after the statements of rows k.. of a stage's table, from graph g.
RECURSIVE LoadRows(_, _, _, _)
LoadRows(stage, rows, k, g) ==
    IF k > Len(rows) THEN g
    ELSE LoadRows(stage, rows, k + 1,
                  Statement(stage, g, "r1", k, Params("etl", stage, rows[k])))

\* The graph after stages st.. of the fixed order on source s, from graph g.
RECURSIVE LoadStages(_, _, _)
LoadStages(s, st, g) ==
    IF st > Len(FixedOrder) THEN g
    ELSE LoadStages(s, st + 1, LoadRows(FixedOrder[st], s[FixedOrder[st]], 1, g))

\* The projection of source s: the graph the stages make of s alone.
Projection(s) == LoadStages(s, 1, EmptyGraph)

\* The states of the source at the points in time since the run's trigger.
Moments(r) ==
    IF run[r].seen = <<>> THEN {src}
    ELSE {run[r].seen[i] : i \in DOMAIN run[r].seen}

\* C21: snapshot consistency: the graph a completed run leaves is the
\* projection of the source as it stood at one single point in time, also
\* when another writer inserts or deletes rows between the run's reads.
C21_SnapshotConsistency ==
    Done("r1") =>
        \E s \in Moments("r1") : SameContent(run["r1"].final, Projection(s))

====
